---- MODULE Spec2Model ----
(***************************************************************************)
(* A model of llama2.cu: the BPE tokenizer's encode, the generation loop,  *)
(* the transformer forward pass with its RMSNorm (host paths and the       *)
(* cooperative kernel).  Arrays of the C code are 0-based; the sequences   *)
(* that hold them here are 1-based, so C's a[i] is a[i+1].                 *)
(***************************************************************************)
EXTENDS Integers, Sequences, FiniteSets, TLC

\* the null pointer of an array that is not allocated
NULL == <<>>

(* ------------------------------ bounds --------------------------------- *)
\* longest text handed to encode
MaxTextLen == 2

\* bytes a text is made of: two ASCII bytes, a continuation byte (10xxxxxx)
\* and a leading byte (11xxxxxx)
TextBytes == {1, 2, 130, 194}

RECURSIVE SeqsUpTo(_, _)
SeqsUpTo(S, n) ==
  IF n = 0 THEN {<<>>}
  ELSE LET shorter == SeqsUpTo(S, n - 1)
       IN shorter \cup {Append(s, b) : s \in {q \in shorter : Len(q) = n - 1}, b \in S}

Texts == SeqsUpTo(TextBytes, MaxTextLen)

\* longer texts of an ASCII byte, a continuation byte and a leading byte:
\* long enough for a code point of more than max_num_utf8_byte bytes
MaxUtf8Len == 5

Utf8Texts == SeqsUpTo({1, 130, 194}, MaxUtf8Len)

(* --------------------------- vocabulary files -------------------------- *)
\* scores are kept in units of 1e8, so that the merge loop's initial
\* best_score of -1e10 is the integer below
BestScoreInit == -100

Entry(p, s) == [piece |-> p, score |-> s]

\* ids 0..2 are <unk>, <s>, </s>; ids 3.. are the byte pieces <0x00>, <0x01>,
\* <0x02>; then regular pieces: " ", "\x01", and merges of them
SpecialEntries ==
  << Entry(<<60, 117, 110, 107, 62>>, 0),
     Entry(<<60, 115, 62>>, 0),
     Entry(<<60, 47, 115, 62>>, 0),
     Entry(<<60, 48, 120, 48, 48, 62>>, 0),
     Entry(<<60, 48, 120, 48, 49, 62>>, 0),
     Entry(<<60, 48, 120, 48, 50, 62>>, 0) >>

\* a well-formed vocabulary: " a" and "aa" have equal scores
VocabFileA ==
  SpecialEntries \o
  << Entry(<<32>>, 0),
     Entry(<<1>>, -1),
     Entry(<<1, 1>>, -2),
     Entry(<<32, 1>>, -2),
     Entry(<<32, 1, 1>>, -3) >>

\* a vocabulary whose only merge piece has the lowest score a file can
\* usefully hold, -1e10
VocabFileB ==
  SpecialEntries \o
  << Entry(<<32>>, 0),
     Entry(<<1>>, -1),
     Entry(<<1, 1>>, BestScoreInit) >>

\* a vocabulary with a piece of two bytes that is one code point
VocabFileC ==
  SpecialEntries \o
  << Entry(<<32>>, 0),
     Entry(<<194, 130>>, -1) >>

VocabFiles == {VocabFileA, VocabFileB, VocabFileC}

\* the vocab_size handed to build_tokenizer (config.vocab_size): the whole
\* file, or only its special and byte entries
VocabSizes(file) == {Len(SpecialEntries), Len(file)}

(* ------------------------------ state ---------------------------------- *)
VARIABLES
  \* the Tokenizer and one encode call
  t,            \* Tokenizer: vocab, vocab_scores, sorted_vocab, vocab_size
  text,         \* encode's text argument (a sequence of bytes, no NUL)
  bos, eos,     \* encode's flags
  enc_pc,       \* where encode is: idle, begin, scan, merge, eos, done, crashed
  c,            \* encode's cursor into text (0-based)
  str_buffer,   \* the bytes str_buffer[0..str_len-1]
  tokens,       \* tokens[0..n_tokens-1]
  n_tokens,     \* *n_tokens
  tokens_cap,   \* how many ints the caller's tokens buffer holds
  tokens_oob,   \* encode has written tokens[i] with i >= tokens_cap
  n_merges,     \* history: merges done by the current encode call
  enc_calls,    \* history: encode calls started on this tokenizer
  enc_log,      \* history: what the encode calls that returned were given and gave
  \* the Transformer
  config,       \* Config
  weights,      \* TransformerWeights: token_embedding_table, rms_att_weight
  x, xb,        \* RunState.x, RunState.xb
  partial_sum,  \* RunState.partial_sum
  key_cache,    \* RunState.key_cache: slot <<layer, pos>> -> vector, <<>> if never written
  value_cache,  \* RunState.value_cache, likewise
  cache_log,    \* history: forward's cache accesses [op, cache, layer, pos]
  device,       \* the device argument
  junk,         \* what the memory nothing has written holds
  \* one forward call
  fwd_pc,       \* idle, entry, layers, in_rmsnorm, returned, trap
  fwd_token,    \* forward's token argument
  fwd_pos,      \* forward's pos argument
  fwd_l,        \* forward's layer counter l
  fwd_trace,    \* history: the steps the current forward call has run
  fwd_ret,      \* what the call returned to its caller
  fwd_calls,    \* history: the positions of the forward calls made, in order
  \* one rmsnorm call and the device's stream
  rms_pc,       \* idle, entry, readback, returned
  stream,       \* kernel launches not yet run, oldest first
  \* one grid of rmsnorm_kernel
  k_pc,         \* lane <<block, tid>> -> where the lane is; <<>> with no grid
  sdata,        \* block -> the block's shared array sdata[0..blockDim-1]
  k_s,          \* lane -> the stride s of the lane's reduction loop
  k_ss,         \* lane -> the lane's register ss
  \* main and generate
  gen_pc,       \* main, generate, encoding, loop, in_forward, exited, ...
  prompt,       \* the prompt argument (NULL or bytes)
  steps,        \* steps
  pos,          \* generate's pos
  token,        \* generate's token
  next,         \* generate's next
  num_prompt_tokens,
  sampler,      \* Sampler: vocab_size, temperature, topp, rng_state
  n_sampled,    \* history: sample calls made
  reported,     \* generate has printed the achieved tok/s
  seed_arg,     \* the seed the command line gives, [hi, lo]: hi * 2^32 + lo
  rng_seed,     \* main's rng_seed, likewise
  \* build_transformer
  ld_pc,        \* header, sign, map, alloc, built, exit_failure, trap, undefined
  header,       \* the seven ints the checkpoint file starts with
  file_len,     \* the checkpoint file's length in bytes
  shared_weights,
  file_size,    \* Transformer.file_size
  wview         \* TransformerWeights' pointers, as offsets in floats into data

encVars == <<t, text, bos, eos, enc_pc, c, str_buffer, tokens, n_tokens,
             tokens_cap, tokens_oob, n_merges, enc_calls, enc_log>>

xfVars == <<config, weights, x, xb, partial_sum, key_cache, value_cache,
            cache_log, device, junk>>

fwdVars == <<fwd_pc, fwd_token, fwd_pos, fwd_l, fwd_trace, fwd_ret, fwd_calls>>

kernVars == <<k_pc, sdata, k_s, k_ss>>

rmsVars == <<rms_pc, stream, kernVars>>

argVars == <<seed_arg, rng_seed>>

ldVars == <<ld_pc, header, file_len, shared_weights, file_size, wview>>

genVars == <<gen_pc, prompt, steps, pos, token, next, num_prompt_tokens,
             sampler, n_sampled, reported, argVars, ldVars>>

vars == <<encVars, xfVars, fwdVars, rmsVars, genVars>>

(* ------------------------------ tokenizer ------------------------------ *)
\* strcmp on NUL-terminated strings, bytes compared as unsigned char
RECURSIVE strcmp(_, _)
strcmp(a, b) ==
  IF a = <<>> THEN (IF b = <<>> THEN 0 ELSE -1)
  ELSE IF b = <<>> THEN 1
  ELSE IF Head(a) < Head(b) THEN -1
  ELSE IF Head(a) > Head(b) THEN 1
  ELSE strcmp(Tail(a), Tail(b))

compare_tokens(a, b) == strcmp(a.str, b.str)

\* qsort(base, n, compare_tokens): the elements in compare_tokens order
RECURSIVE InsertSorted(_, _)
InsertSorted(e, s) ==
  IF s = <<>> THEN <<e>>
  ELSE IF compare_tokens(e, Head(s)) <= 0 THEN <<e>> \o s
  ELSE <<Head(s)>> \o InsertSorted(e, Tail(s))

RECURSIVE qsort(_)
qsort(base) ==
  IF base = <<>> THEN <<>> ELSE InsertSorted(Head(base), qsort(Tail(base)))

\* bsearch(key, base, n, compare_tokens) over base[lo..hi-1]: the index of
\* the element found, -1 for its NULL
RECURSIVE bsearch(_, _, _, _)
bsearch(key, base, lo, hi) ==
  IF lo >= hi THEN -1
  ELSE LET mid == (lo + hi) \div 2
           cmp == compare_tokens(key, base[mid + 1])
       IN IF cmp < 0 THEN bsearch(key, base, lo, mid)
          ELSE IF cmp > 0 THEN bsearch(key, base, mid + 1, hi)
          ELSE mid

str_lookup(str, sorted_vocab, vocab_size) ==
  LET res == bsearch([str |-> str], sorted_vocab, 0, vocab_size)
  IN IF res # -1 THEN sorted_vocab[res + 1].id ELSE -1

\* build_tokenizer: the first vocab_size entries of the file, no sorted index
build_tokenizer(file, vocab_size) ==
  [ vocab        |-> [i \in 1..vocab_size |-> file[i].piece],
    vocab_scores |-> [i \in 1..vocab_size |-> file[i].score],
    sorted_vocab |-> NULL,
    vocab_size   |-> vocab_size ]

Tokenizers ==
  UNION {{build_tokenizer(f, n) : n \in VocabSizes(f)} : f \in VocabFiles}

(* -------------------------------- encode ------------------------------- *)
\* (b & 0xC0) == 0x80
IsContinuation(b) == (b \div 64) % 4 = 2

max_num_utf8_byte == 4

\* what reading vocab[id] with id outside 0..vocab_size-1 can yield where it
\* does not fault: the bytes at whatever address lies there
GarbagePieces == {<<>>, <<1>>}

ValidId(id) == id \in 0..(t.vocab_size - 1)

\* t->vocab[id] as the merge loop reads it
VocabRead(id, g) == IF ValidId(id) THEN t.vocab[id + 1] ELSE g

\* the for loop of one merge iteration, from index i on, with the best
\* candidate found so far
RECURSIVE MergeScan(_, _, _)
MergeScan(i, best, g) ==
  IF i >= n_tokens - 1 THEN best
  ELSE LET buf == VocabRead(tokens[i + 1], g) \o VocabRead(tokens[i + 2], g)
           id  == str_lookup(buf, t.sorted_vocab, t.vocab_size)
       IN IF id # -1 /\ t.vocab_scores[id + 1] > best.score
          THEN MergeScan(i + 1, [score |-> t.vocab_scores[id + 1], id |-> id, idx |-> i], g)
          ELSE MergeScan(i + 1, best, g)

\* tokens[best_idx] = best_id, then the tail shifted back by one
MergeAt(toks, n, best_idx, best_id) ==
  [i \in 1..(n - 1) |->
     IF i - 1 < best_idx THEN toks[i]
     ELSE IF i - 1 = best_idx THEN best_id
     ELSE toks[i + 1]]

\* encode's writes tokens[(*n_tokens)++] = v for each v of vals; a write
\* past the caller's buffer either lands in the memory behind it or faults
EncodeWrite(vals, next_pc) ==
  LET over == n_tokens + Len(vals) > tokens_cap
  IN /\ tokens' = tokens \o vals
     /\ n_tokens' = n_tokens + Len(vals)
     /\ tokens_oob' = (tokens_oob \/ over)
     /\ \/ enc_pc' = next_pc
        \/ over /\ enc_pc' = "crashed"

\* lines 207-239: the lazy sort, *n_tokens = 0, the optional BOS and the
\* dummy prefix
EncodeBegin ==
  /\ enc_pc = "begin"
  /\ LET sorted ==
           IF t.sorted_vocab = NULL
           THEN qsort([i \in 1..t.vocab_size |-> [str |-> t.vocab[i], id |-> i - 1]])
           ELSE t.sorted_vocab
         dummy_prefix == str_lookup(<<32>>, sorted, t.vocab_size)
         first == (IF bos # 0 THEN <<1>> ELSE <<>>)
                  \o (IF text # <<>> THEN <<dummy_prefix>> ELSE <<>>)
         over == Len(first) > tokens_cap
     IN /\ t' = [t EXCEPT !.sorted_vocab = sorted]
        /\ tokens' = first
        /\ n_tokens' = Len(first)
        /\ tokens_oob' = over
        /\ \/ enc_pc' = (IF text = <<>> THEN "merge" ELSE "scan")
           \/ over /\ enc_pc' = "crashed"
  /\ c' = 0
  /\ str_buffer' = <<>>
  /\ n_merges' = 0
  /\ UNCHANGED <<xfVars, fwdVars, rmsVars, genVars>>
  /\ UNCHANGED <<text, bos, eos, tokens_cap, enc_calls, enc_log>>

\* the byte loop without line 288's str_len = 0 after a code point is emitted
EncodeByte_NoReset ==
  /\ enc_pc = "scan"
  /\ c < Len(text)
  /\ LET cur  == text[c + 1]
         nxt  == IF c + 1 < Len(text) THEN text[c + 2] ELSE 0
         buf  == (IF ~IsContinuation(cur) THEN <<>> ELSE str_buffer) \o <<cur>>
         id   == str_lookup(buf, t.sorted_vocab, t.vocab_size)
         after == IF c + 1 < Len(text) THEN "scan" ELSE "merge"
     IN IF IsContinuation(nxt) /\ Len(buf) < max_num_utf8_byte
        THEN /\ str_buffer' = buf
             /\ UNCHANGED <<tokens, n_tokens, tokens_oob, enc_pc>>
        ELSE /\ str_buffer' = buf
             /\ EncodeWrite(IF id # -1 THEN <<id>>
                            ELSE [i \in 1..Len(buf) |-> buf[i] + 3], after)
  /\ c' = c + 1
  /\ UNCHANGED <<xfVars, fwdVars, rmsVars, genVars>>
  /\ UNCHANGED <<t, text, bos, eos, tokens_cap, n_merges, enc_calls, enc_log>>

\* lines 251-289: one iteration of the loop over the text's bytes
EncodeByte ==
  /\ enc_pc = "scan"
  /\ c < Len(text)
  /\ LET cur  == text[c + 1]
         nxt  == IF c + 1 < Len(text) THEN text[c + 2] ELSE 0
         buf  == (IF ~IsContinuation(cur) THEN <<>> ELSE str_buffer) \o <<cur>>
         id   == str_lookup(buf, t.sorted_vocab, t.vocab_size)
         after == IF c + 1 < Len(text) THEN "scan" ELSE "merge"
     IN IF IsContinuation(nxt) /\ Len(buf) < max_num_utf8_byte
        THEN /\ str_buffer' = buf
             /\ UNCHANGED <<tokens, n_tokens, tokens_oob, enc_pc>>
        ELSE /\ str_buffer' = <<>>
             /\ EncodeWrite(IF id # -1 THEN <<id>>
                            ELSE [i \in 1..Len(buf) |-> buf[i] + 3], after)
  /\ c' = c + 1
  /\ UNCHANGED <<xfVars, fwdVars, rmsVars, genVars>>
  /\ UNCHANGED <<t, text, bos, eos, tokens_cap, n_merges, enc_calls, enc_log>>

\* lines 292-320: one iteration of while (1)
EncodeMerge ==
  /\ enc_pc = "merge"
  /\ \E g \in GarbagePieces :
       LET best == MergeScan(0, [score |-> BestScoreInit, id |-> -1, idx |-> -1], g)
           wild == n_tokens >= 2 /\ \E i \in 1..n_tokens : ~ValidId(tokens[i])
       IN \/ /\ best.idx = -1
             /\ enc_pc' = "eos"
             /\ UNCHANGED <<tokens, n_tokens, n_merges>>
          \/ /\ best.idx # -1
             /\ tokens' = MergeAt(tokens, n_tokens, best.idx, best.id)
             /\ n_tokens' = n_tokens - 1
             /\ n_merges' = n_merges + 1
             /\ enc_pc' = "merge"
          \/ /\ wild
             /\ enc_pc' = "crashed"
             /\ UNCHANGED <<tokens, n_tokens, n_merges>>
  /\ UNCHANGED <<xfVars, fwdVars, rmsVars, genVars>>
  /\ UNCHANGED <<t, text, bos, eos, c, str_buffer, tokens_cap, tokens_oob, enc_calls,
                 enc_log>>

\* lines 322-326: the optional EOS, free(str_buffer), return
EncodeEnd ==
  /\ enc_pc = "eos"
  /\ EncodeWrite(IF eos # 0 THEN <<2>> ELSE <<>>, "done")
  /\ enc_log' = IF enc_pc' = "done"
                THEN enc_log \cup {[text |-> text, bos |-> bos, eos |-> eos,
                                    n_tokens |-> n_tokens', tokens |-> tokens']}
                ELSE enc_log
  /\ UNCHANGED <<xfVars, fwdVars, rmsVars, genVars>>
  /\ UNCHANGED <<t, text, bos, eos, c, str_buffer, tokens_cap, n_merges, enc_calls>>

encode == EncodeBegin \/ EncodeByte \/ EncodeMerge \/ EncodeEnd

(* ---------------------------- a call of encode ------------------------ *)
\* encode calls the caller makes on one tokenizer
MaxEncodeCalls == 1

\* a caller that hands encode a text, flags and the buffer its comment asks
\* for: strlen(text) + 3 ints ('\0', ?BOS, ?EOS)
EncodeCall ==
  /\ enc_pc \in {"idle", "done"}
  /\ enc_calls < MaxEncodeCalls
  /\ \E txt \in Texts, b \in {0, 1}, e \in {0, 1} :
       /\ text' = txt
       /\ bos' = b
       /\ eos' = e
       /\ tokens_cap' = Len(txt) + 3
  /\ enc_pc' = "begin"
  /\ enc_calls' = enc_calls + 1
  /\ UNCHANGED <<xfVars, fwdVars, rmsVars, genVars>>
  /\ UNCHANGED <<t, c, str_buffer, tokens, n_tokens, tokens_oob, n_merges, enc_log>>

\* the same caller, calling once with a text of Utf8Texts
EncodeCallUtf8 ==
  /\ enc_pc = "idle"
  /\ enc_calls = 0
  /\ \E txt \in Utf8Texts, b \in {0, 1}, e \in {0, 1} :
       /\ text' = txt
       /\ bos' = b
       /\ eos' = e
       /\ tokens_cap' = Len(txt) + 3
  /\ enc_pc' = "begin"
  /\ enc_calls' = enc_calls + 1
  /\ UNCHANGED <<xfVars, fwdVars, rmsVars, genVars>>
  /\ UNCHANGED <<t, c, str_buffer, tokens, n_tokens, tokens_oob, n_merges, enc_log>>

\* times the caller repeats its encode call
MaxRepeats == 1

\* the caller calls encode again on the same tokenizer with the text, the
\* flags and the buffer of the call that has returned
EncodeRepeat ==
  /\ enc_pc = "done"
  /\ enc_calls < 1 + MaxRepeats
  /\ enc_pc' = "begin"
  /\ enc_calls' = enc_calls + 1
  /\ UNCHANGED <<xfVars, fwdVars, rmsVars, genVars>>
  /\ UNCHANGED <<t, text, bos, eos, tokens_cap, c, str_buffer, tokens, n_tokens,
                 tokens_oob, n_merges, enc_log>>

(* ------------------------------ transformer ---------------------------- *)
\* ranges of the Config fields the model draws
MaxDim == 2
MaxLayers == 2
MaxSeqLen == 2

\* what memory that was never written can hold
JunkVals == {0, 7}

cudaCpuDeviceId == -1

Devices == {cudaCpuDeviceId, 0}

\* the kernels run with 2^LogBlockDim lanes a block, in place of BLOCKSIZE
LogBlockDim == 1

RECURSIVE Pow2(_)
Pow2(n) == IF n = 0 THEN 1 ELSE 2 * Pow2(n - 1)

BLOCKSIZE == Pow2(LogBlockDim)

Configs(vocab_size) ==
  { [dim |-> d, hidden_dim |-> 2 * d, n_layers |-> nl, n_heads |-> 1,
     n_kv_heads |-> 1, vocab_size |-> vocab_size, max_seq_len |-> sl] :
    d \in 1..MaxDim, nl \in 1..MaxLayers, sl \in 1..MaxSeqLen }

\* two contents of the weight buffer: all ones, and a pattern
WeightImages == {"ones", "pattern"}

WeightsOf(cfg, img) ==
  [ token_embedding_table |->
      [tok \in 0..(cfg.vocab_size - 1) |->
         [j \in 1..cfg.dim |-> IF img = "ones" THEN 1 ELSE (tok + j) % 3]],
    rms_att_weight |->
      [l \in 0..(cfg.n_layers - 1) |->
         [j \in 1..cfg.dim |-> IF img = "ones" THEN 1 ELSE 1 + ((l + j) % 2)]] ]

Slots(cfg) == (0..(cfg.n_layers - 1)) \X (0..(cfg.max_seq_len - 1))

\* the process has neither exited nor been killed
ProcessRuns ==
  /\ gen_pc \notin {"exited", "exit_failure", "returned"}
  /\ enc_pc # "crashed"
  /\ fwd_pc # "trap"

(* -------------------------------- rmsnorm ------------------------------ *)
\* floats are fixed-point integers: a mean of squares counts units of 1e-5,
\* a scale counts units of 1/100

\* the largest r in lo..hi with r * r <= n
RECURSIVE IsqrtIn(_, _, _)
IsqrtIn(n, lo, hi) ==
  IF lo >= hi THEN lo
  ELSE LET mid == (lo + hi + 1) \div 2
       IN IF mid * mid <= n THEN IsqrtIn(n, mid, hi) ELSE IsqrtIn(n, lo, mid - 1)

\* 1.0f / sqrtf(ss), ss in units of 1e-5, the result in units of 1/100
InvSqrt(ss) == IsqrtIn(1000000000 \div ss, 0, 31622)

RECURSIVE SumSq(_, _)
SumSq(v, size) == IF size = 0 THEN 0 ELSE SumSq(v, size - 1) + v[size] * v[size]

\* lines 519-530: the host path's output o[0..size-1]
rmsnorm_cpu(v, weight, size) ==
  LET ss0 == SumSq(v, size)
      ss1 == (ss0 * 100000) \div size
      ss2 == ss1 + 1
      ss  == InvSqrt(ss2)
  IN [j \in 1..size |-> weight[j] * (ss * v[j])]

\* the values sdata[w] can hold once lane w has run the strides below s of
\* the loop of lines 460-464, and those it can hold at any time: the loop has
\* no barrier, so the lane that adds sdata[w] may read any of them
RECURSIVE CellStage(_, _, _), CellAny(_, _, _)
CellStage(ld, w, s) ==
  IF s = 1 THEN {ld[w + 1]}
  ELSE LET h == s \div 2
           prev == CellStage(ld, w, h)
       IN IF w % s = 0
          THEN {a + b : a \in prev, b \in CellAny(ld, w + h, h)}
          ELSE prev

CellAny(ld, w, s) ==
  IF s = 1 THEN CellStage(ld, w, 1)
  ELSE CellStage(ld, w, s) \cup CellAny(ld, w, s \div 2)

\* reduce's block b: what it can leave in partial_o[b], reading x[i] for
\* i = b * blockDim + tid; g is what a read past the end of x yields
ReduceBlock(src, b, g) ==
  LET ld == [k \in 1..BLOCKSIZE |->
               LET i == b * BLOCKSIZE + (k - 1)
               IN IF i < Len(src) THEN src[i + 1] ELSE g]
  IN CellStage(ld, 0, BLOCKSIZE)

\* lines 518-530: the host path
RmsnormCpu ==
  /\ rms_pc = "entry"
  /\ device = cudaCpuDeviceId
  /\ xb' = rmsnorm_cpu(x, weights.rms_att_weight[fwd_l], config.dim)
  /\ rms_pc' = "returned"
  /\ UNCHANGED <<config, weights, x, partial_sum, key_cache, value_cache,
                 cache_log, device, junk, stream, kernVars>>
  /\ UNCHANGED <<encVars, fwdVars, genVars>>

\* lines 532-537: the accelerator path's launches. rmsnorm_kernel() names no
\* grid and no arguments and launches nothing; a launch of 0 blocks fails,
\* its error unread
RmsnormLaunch ==
  /\ rms_pc = "entry"
  /\ device # cudaCpuDeviceId
  /\ LET GRIDSIZE == config.dim \div BLOCKSIZE
         first  == IF GRIDSIZE > 0
                   THEN <<[grid |-> GRIDSIZE, src |-> "x", done |-> {}]>>
                   ELSE <<>>
         second == <<[grid |-> 1, src |-> "partial_o", done |-> {}]>>
     IN stream' = stream \o first \o second
  /\ rms_pc' = "readback"
  /\ UNCHANGED <<xfVars, kernVars, encVars, fwdVars, genVars>>

\* lines 538-544: ss = partial_o[0] and the arithmetic on it; o is not written
RmsnormReadback ==
  /\ rms_pc = "readback"
  /\ rms_pc' = "returned"
  /\ UNCHANGED <<xfVars, stream, kernVars, encVars, fwdVars, genVars>>

\* lines 449-470: one block of the oldest launch of reduce runs; the launch
\* is over with its last block
KernelBlock ==
  /\ ProcessRuns
  /\ stream # <<>>
  /\ LET k == Head(stream)
     IN \E b \in (0..(k.grid - 1)) \ k.done, g \in JunkVals :
          \E r \in ReduceBlock(IF k.src = "x" THEN x ELSE partial_sum, b, g) :
            /\ partial_sum' = [partial_sum EXCEPT ![b + 1] = r]
            /\ stream' = IF k.done \cup {b} = 0..(k.grid - 1)
                         THEN Tail(stream)
                         ELSE <<[k EXCEPT !.done = k.done \cup {b}]>> \o Tail(stream)
  /\ UNCHANGED <<config, weights, x, xb, key_cache, value_cache, cache_log,
                 device, junk, rms_pc, kernVars>>
  /\ UNCHANGED <<encVars, fwdVars, genVars>>

rmsnorm == RmsnormCpu \/ RmsnormLaunch \/ RmsnormReadback

(* ----------------------------- rmsnorm_kernel -------------------------- *)
\* the lanes of a grid of rmsnorm_kernel, <<blockIdx.x, threadIdx.x>>
Lanes == DOMAIN k_pc

LanesOfBlock(b) == {ln \in Lanes : ln[1] = b}

\* i = blockIdx.x * blockDim.x + threadIdx.x
GlobalIdx(ln) == ln[1] * BLOCKSIZE + ln[2]

\* the order of a lane's program points
KRank(p) ==
  CASE p = "load" -> 0
    [] p = "block_sync" -> 1
    [] p = "loop" -> 2
    [] p = "partial" -> 3
    [] p = "grid_sync_1" -> 4
    [] p = "launch" -> 5
    [] p = "scale" -> 6
    [] p = "grid_sync_2" -> 7
    [] p = "read_ss" -> 8
    [] p = "store_o" -> 9
    [] p = "done" -> 10

\* every lane of the group has arrived at the barrier at program point p
Arrived(group, p) == \A ln \in group : KRank(k_pc[ln]) >= KRank(p)

KernelStep(ln, p) == k_pc' = [k_pc EXCEPT ![ln] = p]

\* line 479: sdata[tid] = x[i]
KernelLoad ==
  \E ln \in Lanes :
    /\ k_pc[ln] = "load"
    /\ sdata' = [sdata EXCEPT ![ln[1]][ln[2] + 1] = x[GlobalIdx(ln) + 1]]
    /\ KernelStep(ln, "block_sync")
    /\ UNCHANGED <<k_s, k_ss, rms_pc, stream>>
    /\ UNCHANGED <<xfVars, encVars, fwdVars, genVars>>

\* line 481: this_thread_block().sync()
KernelBlockSync ==
  \E ln \in Lanes :
    /\ k_pc[ln] = "block_sync"
    /\ Arrived(LanesOfBlock(ln[1]), "block_sync")
    /\ k_s' = [k_s EXCEPT ![ln] = 1]
    /\ KernelStep(ln, "loop")
    /\ UNCHANGED <<sdata, k_ss, rms_pc, stream>>
    /\ UNCHANGED <<xfVars, encVars, fwdVars, genVars>>

\* lines 484-488: one iteration of the reduction loop, which has no barrier
KernelStride ==
  \E ln \in Lanes :
    /\ k_pc[ln] = "loop"
    /\ LET s == k_s[ln]
           tid == ln[2]
       IN IF s < BLOCKSIZE
          THEN /\ sdata' = IF tid % (2 * s) = 0
                           THEN [sdata EXCEPT ![ln[1]][tid + 1] =
                                   sdata[ln[1]][tid + 1] + sdata[ln[1]][tid + s + 1]]
                           ELSE sdata
               /\ k_s' = [k_s EXCEPT ![ln] = 2 * s]
               /\ UNCHANGED k_pc
          ELSE /\ KernelStep(ln, "partial")
               /\ UNCHANGED <<sdata, k_s>>
    /\ UNCHANGED <<k_ss, rms_pc, stream>>
    /\ UNCHANGED <<xfVars, encVars, fwdVars, genVars>>

\* lines 491-493: lane 0 of the block writes the block's partial sum
KernelPartial ==
  \E ln \in Lanes :
    /\ k_pc[ln] = "partial"
    /\ partial_sum' = IF ln[2] = 0
                      THEN [partial_sum EXCEPT ![ln[1] + 1] = sdata[ln[1]][1]]
                      ELSE partial_sum
    /\ KernelStep(ln, "grid_sync_1")
    /\ UNCHANGED <<config, weights, x, xb, key_cache, value_cache, cache_log,
                   device, junk>>
    /\ UNCHANGED <<sdata, k_s, k_ss, rms_pc, stream>>
    /\ UNCHANGED <<encVars, fwdVars, genVars>>

\* lines 496-501: grid.sync(); lane 0 of block 0 goes on to the launch
KernelGridSync1 ==
  \E ln \in Lanes :
    /\ k_pc[ln] = "grid_sync_1"
    /\ Arrived(Lanes, "grid_sync_1")
    /\ KernelStep(ln, IF ln = <<0, 0>> THEN "launch" ELSE "grid_sync_2")
    /\ UNCHANGED <<sdata, k_s, k_ss, rms_pc, stream>>
    /\ UNCHANGED <<xfVars, encVars, fwdVars, genVars>>

\* line 502: the launch of reduce<<<1, BLOCKSIZE>>>(partial_sum, partial_sum)
\* from the device; the launching lane does not wait for the child grid
KernelLaunchReduce ==
  /\ <<0, 0>> \in Lanes
  /\ k_pc[<<0, 0>>] = "launch"
  /\ stream' = Append(stream, [grid |-> 1, src |-> "partial_o", done |-> {}])
  /\ KernelStep(<<0, 0>>, "scale")
  /\ UNCHANGED <<sdata, k_s, k_ss, rms_pc>>
  /\ UNCHANGED <<xfVars, encVars, fwdVars, genVars>>

\* line 503: partial_sum[0] = 1.0f / sqrtf(partial_sum[0] / size + 1e-5f)
KernelScale ==
  /\ <<0, 0>> \in Lanes
  /\ k_pc[<<0, 0>>] = "scale"
  /\ partial_sum' = [partial_sum EXCEPT ![1] =
                       InvSqrt((partial_sum[1] * 100000) \div config.dim + 1)]
  /\ KernelStep(<<0, 0>>, "grid_sync_2")
  /\ UNCHANGED <<config, weights, x, xb, key_cache, value_cache, cache_log,
                 device, junk>>
  /\ UNCHANGED <<sdata, k_s, k_ss, rms_pc, stream>>
  /\ UNCHANGED <<encVars, fwdVars, genVars>>

\* line 510: the second grid.sync()
KernelGridSync2 ==
  \E ln \in Lanes :
    /\ k_pc[ln] = "grid_sync_2"
    /\ Arrived(Lanes, "grid_sync_2")
    /\ KernelStep(ln, "read_ss")
    /\ UNCHANGED <<sdata, k_s, k_ss, rms_pc, stream>>
    /\ UNCHANGED <<xfVars, encVars, fwdVars, genVars>>

\* line 512: ss = partial_sum[0]
KernelReadScale ==
  \E ln \in Lanes :
    /\ k_pc[ln] = "read_ss"
    /\ k_ss' = [k_ss EXCEPT ![ln] = partial_sum[1]]
    /\ KernelStep(ln, "store_o")
    /\ UNCHANGED <<sdata, k_s, rms_pc, stream>>
    /\ UNCHANGED <<xfVars, encVars, fwdVars, genVars>>

\* line 514: o[i] = weight[i] * (ss * x[i])
KernelStore ==
  \E ln \in Lanes :
    /\ k_pc[ln] = "store_o"
    /\ LET i == GlobalIdx(ln) + 1
       IN xb' = [xb EXCEPT ![i] = weights.rms_att_weight[0][i] * (k_ss[ln] * x[i])]
    /\ KernelStep(ln, "done")
    /\ UNCHANGED <<config, weights, x, partial_sum, key_cache, value_cache,
                   cache_log, device, junk>>
    /\ UNCHANGED <<sdata, k_s, k_ss, rms_pc, stream>>
    /\ UNCHANGED <<encVars, fwdVars, genVars>>

rmsnorm_kernel ==
  \/ KernelLoad
  \/ KernelBlockSync
  \/ KernelStride
  \/ KernelPartial
  \/ KernelGridSync1
  \/ KernelLaunchReduce
  \/ KernelScale
  \/ KernelGridSync2
  \/ KernelReadScale
  \/ KernelStore

(* -------------------------------- forward ------------------------------ *)
\* forward's entry with the copy of line 572 reversed: x is copied over
\* the token's embedding row
ForwardEntry_CopyReversed ==
  /\ fwd_pc = "entry"
  /\ weights' = [weights EXCEPT !.token_embedding_table[fwd_token] = x]
  /\ fwd_l' = 0
  /\ fwd_trace' = << <<"embedding", -1>> >>
  /\ fwd_pc' = "layers"
  /\ UNCHANGED <<config, x, xb, partial_sum, key_cache, value_cache,
                 cache_log, device, junk>>
  /\ UNCHANGED <<fwd_token, fwd_pos, fwd_ret, fwd_calls>>
  /\ UNCHANGED <<encVars, rmsVars, genVars>>

\* lines 558-572: the convenience variables and cudaMemcpyAsync of the
\* token's embedding row into x on the default stream. The call returns with
\* the copy done, or with the copy queued behind the work already on the
\* stream: nothing after line 572 waits for it
ForwardEntry ==
  /\ fwd_pc = "entry"
  /\ \/ /\ x' = weights.token_embedding_table[fwd_token]
        /\ UNCHANGED stream
     \/ /\ stream' = Append(stream, [grid |-> 0, src |-> "memcpy", done |-> {},
                                     row |-> fwd_token])
        /\ UNCHANGED x
  /\ fwd_l' = 0
  /\ fwd_trace' = << <<"embedding", -1>> >>
  /\ fwd_pc' = "layers"
  /\ UNCHANGED <<config, weights, xb, partial_sum, key_cache, value_cache,
                 cache_log, device, junk>>
  /\ UNCHANGED <<fwd_token, fwd_pos, fwd_ret, fwd_calls>>
  /\ UNCHANGED <<rms_pc, kernVars, encVars, genVars>>

\* line 572, on the device's side: the queued copy, once it is the oldest
\* work of the stream, writes one more element of x; it is over with the
\* last element
EmbeddingCopy ==
  /\ ProcessRuns
  /\ stream # <<>>
  /\ Head(stream).src = "memcpy"
  /\ LET k == Head(stream)
     IN \E i \in (1..config.dim) \ k.done :
          /\ x' = [x EXCEPT ![i] = weights.token_embedding_table[k.row][i]]
          /\ stream' = IF k.done \cup {i} = 1..config.dim
                       THEN Tail(stream)
                       ELSE <<[k EXCEPT !.done = k.done \cup {i}]>> \o Tail(stream)
  /\ UNCHANGED <<config, weights, xb, partial_sum, key_cache, value_cache,
                 cache_log, device, junk, rms_pc, kernVars>>
  /\ UNCHANGED <<encVars, fwdVars, genVars>>

\* lines 576-578: the loop test and the call of rmsnorm for layer l
ForwardLayer ==
  /\ fwd_pc = "layers"
  /\ fwd_l < config.n_layers
  /\ rms_pc' = "entry"
  /\ fwd_pc' = "in_rmsnorm"
  /\ UNCHANGED <<fwd_token, fwd_pos, fwd_l, fwd_trace, fwd_ret, fwd_calls>>
  /\ UNCHANGED <<stream, kernVars, xfVars, encVars, genVars>>

\* lines 578-579: rmsnorm has returned; l++
ForwardLayerDone ==
  /\ fwd_pc = "in_rmsnorm"
  /\ rms_pc = "returned"
  /\ rms_pc' = "idle"
  /\ fwd_trace' = Append(fwd_trace, <<"attention-norm", fwd_l>>)
  /\ fwd_l' = fwd_l + 1
  /\ fwd_pc' = "layers"
  /\ UNCHANGED <<fwd_token, fwd_pos, fwd_ret, fwd_calls>>
  /\ UNCHANGED <<stream, kernVars, xfVars, encVars, genVars>>

\* line 580: the loop is over and the function ends with no return
\* statement: the caller gets an indeterminate pointer, or control does not
\* come back
ForwardEnd ==
  /\ fwd_pc = "layers"
  /\ fwd_l >= config.n_layers
  /\ \/ fwd_pc' = "returned" /\ fwd_ret' = "indeterminate"
     \/ fwd_pc' = "trap" /\ UNCHANGED fwd_ret
  /\ UNCHANGED <<fwd_token, fwd_pos, fwd_l, fwd_trace, fwd_calls>>
  /\ UNCHANGED <<xfVars, encVars, rmsVars, genVars>>

forward == ForwardEntry \/ ForwardLayer \/ ForwardLayerDone \/ ForwardEnd

(* --------------------------- main and generate ------------------------- *)
\* the values of the -n option the model draws, from -1 on
MaxSteps == 3

build_sampler(vocab_size, temperature, topp, seed) ==
  [vocab_size |-> vocab_size, temperature |-> temperature, topp |-> topp,
   rng_state |-> seed]

\* a 64-bit seed, as its two 32-bit halves
Seed(hi, lo) == [hi |-> hi, lo |-> lo]

\* line 720: rng_seed = atoi(optarg); atoi yields an int, here the low half
\* of a value that does not fit one
atoi(arg) == Seed(0, arg.lo)

\* what time(NULL) returns
TimeVals == {Seed(0, 5), Seed(0, 6)}

\* lines 758-780: the parameter corrections, the step budget's clamp to
\* max_seq_len, the sampler
MainSetup ==
  /\ gen_pc = "main"
  /\ LET s0 == IF steps < 0 THEN 0 ELSE steps
     IN steps' = IF s0 = 0 \/ s0 > config.max_seq_len THEN config.max_seq_len ELSE s0
  /\ IF rng_seed = Seed(0, 0) THEN rng_seed' \in TimeVals ELSE rng_seed' = rng_seed
  /\ sampler' = build_sampler(config.vocab_size, sampler.temperature, sampler.topp,
                              rng_seed')
  /\ gen_pc' = "generate"
  /\ UNCHANGED <<prompt, pos, token, next, num_prompt_tokens, n_sampled, reported>>
  /\ UNCHANGED <<xfVars, encVars, fwdVars, rmsVars>>
  /\ UNCHANGED <<seed_arg, ldVars>>

\* lines 587-594: the tokens buffer of sizeof(int) * strlen(prompt) + 3
\* bytes and the call encode(tokenizer, prompt, 1, 0, ...)
GenerateBegin ==
  /\ gen_pc = "generate"
  /\ text' = prompt
  /\ bos' = 1
  /\ eos' = 0
  /\ tokens_cap' = (4 * Len(prompt) + 3) \div 4
  /\ enc_pc' = "begin"
  /\ enc_calls' = enc_calls + 1
  /\ gen_pc' = "encoding"
  /\ UNCHANGED <<t, c, str_buffer, tokens, n_tokens, tokens_oob, n_merges, enc_log>>
  /\ UNCHANGED <<prompt, steps, pos, token, next, num_prompt_tokens, sampler,
                 n_sampled, reported>>
  /\ UNCHANGED <<xfVars, fwdVars, rmsVars>>
  /\ UNCHANGED <<argVars, ldVars>>

\* lines 595-605: encode has returned
GenerateEncoded ==
  /\ gen_pc = "encoding"
  /\ enc_pc = "done"
  /\ num_prompt_tokens' = n_tokens
  /\ IF n_tokens < 1
     THEN gen_pc' = "exit_failure" /\ UNCHANGED <<token, pos>>
     ELSE gen_pc' = "loop" /\ token' = tokens[1] /\ pos' = 0
  /\ UNCHANGED <<prompt, steps, next, sampler, n_sampled, reported>>
  /\ UNCHANGED <<xfVars, encVars, fwdVars, rmsVars>>
  /\ UNCHANGED <<argVars, ldVars>>

\* lines 606-609 and 634-643: the loop test; the call of forward, or the
\* code after the loop
GenerateLoop ==
  /\ gen_pc = "loop"
  /\ IF pos < steps
     THEN /\ fwd_pc' = "entry"
          /\ fwd_token' = token
          /\ fwd_pos' = pos
          /\ fwd_calls' = Append(fwd_calls, pos)
          /\ gen_pc' = "in_forward"
          /\ UNCHANGED reported
     ELSE /\ gen_pc' = "returned"
          /\ reported' = (pos > 1)
          /\ UNCHANGED <<fwd_pc, fwd_token, fwd_pos, fwd_calls>>
  /\ UNCHANGED <<fwd_l, fwd_trace, fwd_ret>>
  /\ UNCHANGED <<prompt, steps, pos, token, next, num_prompt_tokens, sampler, n_sampled>>
  /\ UNCHANGED <<xfVars, encVars, rmsVars>>
  /\ UNCHANGED <<argVars, ldVars>>

\* lines 611-620: forward has returned; the next token, pos++, exit(-1)
GenerateAdvance ==
  /\ gen_pc = "in_forward"
  /\ fwd_pc = "returned"
  /\ IF pos < num_prompt_tokens - 1
     THEN next' = tokens[pos + 2]
     ELSE UNCHANGED next
  /\ pos' = pos + 1
  /\ gen_pc' = "exited"
  /\ UNCHANGED <<prompt, steps, token, num_prompt_tokens, sampler, n_sampled, reported>>
  /\ UNCHANGED <<xfVars, encVars, fwdVars, rmsVars>>
  /\ UNCHANGED <<argVars, ldVars>>

generate == GenerateBegin \/ GenerateEncoded \/ GenerateLoop \/ GenerateAdvance

(* --------------------------- build_transformer ------------------------- *)
\* INT_MIN
IntMin == -2147483647 - 1

\* sizeof(Config): seven ints
sizeofConfig == 28

sizeofFloat == 4

\* C's integer division, which truncates toward zero
CDiv(a, b) ==
  LET q == (IF a < 0 THEN -a ELSE a) \div (IF b < 0 THEN -b ELSE b)
  IN IF (a < 0) # (b < 0) THEN -q ELSE q

\* lines 376-405: the pointers memory_map_weights sets, as offsets in floats
\* from data; end is where ptr stands after the last region it skips
memory_map_weights(cfg, ptr, shared) ==
  LET head_size == CDiv(cfg.dim, cfg.n_heads)
      n_layers == cfg.n_layers
      p1  == ptr + cfg.vocab_size * cfg.dim
      p2  == p1 + n_layers * cfg.dim
      p3  == p2 + n_layers * cfg.dim * (cfg.n_heads * head_size)
      p4  == p3 + n_layers * cfg.dim * (cfg.n_kv_heads * head_size)
      p5  == p4 + n_layers * cfg.dim * (cfg.n_kv_heads * head_size)
      p6  == p5 + n_layers * (cfg.n_heads * head_size) * cfg.dim
      p7  == p6 + n_layers * cfg.dim
      p8  == p7 + n_layers * cfg.dim * cfg.hidden_dim
      p9  == p8 + n_layers * cfg.hidden_dim * cfg.dim
      p10 == p9 + n_layers * cfg.dim * cfg.hidden_dim
      p11 == p10 + cfg.dim
      p12 == p11 + CDiv(cfg.max_seq_len * head_size, 2)
      p13 == p12 + CDiv(cfg.max_seq_len * head_size, 2)
  IN [ token_embedding_table |-> ptr, rms_att_weight |-> p1, wq |-> p2,
       wk |-> p3, wv |-> p4, wo |-> p5, rms_ffn_weight |-> p6, w1 |-> p7,
       w2 |-> p8, w3 |-> p9, rms_final_weight |-> p10,
       wcls |-> IF shared # 0 THEN ptr ELSE p13,
       end |-> p13 ]

\* lines 408-414: fopen and the fread of the header
LoaderReadHeader ==
  /\ ld_pc = "header"
  /\ IF file_len < sizeofConfig
     THEN ld_pc' = "exit_failure" /\ UNCHANGED config
     ELSE ld_pc' = "sign" /\ config' = header
  /\ UNCHANGED <<weights, x, xb, partial_sum, key_cache, value_cache, cache_log,
                 device, junk>>
  /\ UNCHANGED <<header, file_len, shared_weights, file_size, wview>>
  /\ UNCHANGED <<gen_pc, prompt, steps, pos, token, next, num_prompt_tokens,
                 sampler, n_sampled, reported, argVars>>
  /\ UNCHANGED <<encVars, fwdVars, rmsVars>>

\* lines 415-417: shared_weights and abs(); abs(INT_MIN) has no defined
\* result
LoaderVocabSign ==
  /\ ld_pc = "sign"
  /\ shared_weights' = IF config.vocab_size > 0 THEN 1 ELSE 0
  /\ IF config.vocab_size = IntMin
     THEN ld_pc' = "undefined" /\ UNCHANGED config
     ELSE /\ ld_pc' = "map"
          /\ config' = [config EXCEPT !.vocab_size =
                          IF config.vocab_size < 0 THEN -config.vocab_size
                          ELSE config.vocab_size]
  /\ UNCHANGED <<weights, x, xb, partial_sum, key_cache, value_cache, cache_log,
                 device, junk>>
  /\ UNCHANGED <<header, file_len, file_size, wview>>
  /\ UNCHANGED <<gen_pc, prompt, steps, pos, token, next, num_prompt_tokens,
                 sampler, n_sampled, reported, argVars>>
  /\ UNCHANGED <<encVars, fwdVars, rmsVars>>

\* lines 418-429: the file's size, the managed buffer of file_size + 1
\* bytes and memory_map_weights, whose first line divides by n_heads
LoaderMap ==
  /\ ld_pc = "map"
  /\ file_size' = file_len
  /\ IF config.n_heads = 0
     THEN ld_pc' = "trap" /\ UNCHANGED wview
     ELSE /\ ld_pc' = "alloc"
          /\ wview' = memory_map_weights(config, sizeofConfig \div sizeofFloat,
                                         shared_weights)
  /\ UNCHANGED <<header, file_len, shared_weights>>
  /\ UNCHANGED <<gen_pc, prompt, steps, pos, token, next, num_prompt_tokens,
                 sampler, n_sampled, reported, argVars>>
  /\ UNCHANGED <<xfVars, encVars, fwdVars, rmsVars>>

\* the sizes alloc_run_state asks cudaMallocManaged for, in floats; a size
\* that is 0, or negative and so huge as a size_t, makes the call fail
AllocSizes(cfg) ==
  LET kv_dim == CDiv(cfg.dim * cfg.n_kv_heads, cfg.n_heads)
  IN { cfg.dim, cfg.hidden_dim, cfg.n_layers * cfg.max_seq_len * kv_dim,
       cfg.n_heads * cfg.max_seq_len, cfg.vocab_size }

\* lines 332-361 and 432-437: alloc_run_state; checkCudaErrors exits on the
\* first allocation that fails
LoaderAllocRunState ==
  /\ ld_pc = "alloc"
  /\ IF \A n \in AllocSizes(config) : n > 0
     THEN /\ ld_pc' = "built"
          /\ x' = [j \in 1..config.dim |-> junk]
          /\ xb' = [j \in 1..config.dim |-> junk]
          /\ partial_sum' = [j \in 1..config.dim |-> junk]
          /\ key_cache' = [sl \in Slots(config) |-> <<>>]
          /\ value_cache' = [sl \in Slots(config) |-> <<>>]
     ELSE /\ ld_pc' = "exit_failure"
          /\ UNCHANGED <<x, xb, partial_sum, key_cache, value_cache>>
  /\ UNCHANGED <<config, weights, cache_log, device, junk>>
  /\ UNCHANGED <<header, file_len, shared_weights, file_size, wview>>
  /\ UNCHANGED <<gen_pc, prompt, steps, pos, token, next, num_prompt_tokens,
                 sampler, n_sampled, reported, argVars>>
  /\ UNCHANGED <<encVars, fwdVars, rmsVars>>

read_checkpoint == LoaderReadHeader \/ LoaderVocabSign \/ LoaderMap

build_transformer == read_checkpoint \/ LoaderAllocRunState

(* ----------------------------- initial states -------------------------- *)
EncInit ==
  /\ text = <<>>
  /\ bos = 0
  /\ eos = 0
  /\ enc_pc = "idle"
  /\ c = 0
  /\ str_buffer = <<>>
  /\ tokens = <<>>
  /\ n_tokens = 0
  /\ tokens_cap = 0
  /\ tokens_oob = FALSE
  /\ n_merges = 0
  /\ enc_calls = 0
  /\ enc_log = {}

\* build_transformer: the Config, the weight views, alloc_run_state's buffers
XfInit(vocab_size) ==
  /\ config \in Configs(vocab_size)
  /\ \E img \in WeightImages : weights = WeightsOf(config, img)
  /\ junk \in JunkVals
  /\ x = [j \in 1..config.dim |-> junk]
  /\ xb = [j \in 1..config.dim |-> junk]
  /\ partial_sum = [j \in 1..config.dim |-> junk]
  /\ key_cache = [s \in Slots(config) |-> <<>>]
  /\ value_cache = [s \in Slots(config) |-> <<>>]
  /\ cache_log = {}
  /\ device \in Devices

FwdInit ==
  /\ fwd_pc = "idle"
  /\ fwd_token = 0
  /\ fwd_pos = 0
  /\ fwd_l = 0
  /\ fwd_trace = <<>>
  /\ fwd_ret = "none"
  /\ fwd_calls = <<>>
  /\ rms_pc = "idle"
  /\ stream = <<>>
  /\ k_pc = <<>>
  /\ sdata = <<>>
  /\ k_s = <<>>
  /\ k_ss = <<>>

\* build_transformer is over
LdBuilt ==
  /\ ld_pc = "built"
  /\ header = <<>>
  /\ file_len = 0
  /\ shared_weights = 1
  /\ file_size = 0
  /\ wview = <<>>

GenInit ==
  /\ gen_pc = "main"
  /\ prompt = <<>>
  /\ steps = 0
  /\ pos = 0
  /\ token = 0
  /\ next = junk
  /\ num_prompt_tokens = 0
  /\ sampler = build_sampler(0, 1, 0, Seed(0, 0))
  /\ n_sampled = 0
  /\ reported = FALSE
  /\ seed_arg = Seed(0, 1)
  /\ rng_seed = atoi(seed_arg)

(* ------------------------- the program: main ... ----------------------- *)
Init ==
  /\ t \in Tokenizers
  /\ EncInit
  /\ XfInit(t.vocab_size)
  /\ FwdInit
  /\ gen_pc = "main"
  /\ prompt \in Texts
  /\ steps \in (-1)..MaxSteps
  /\ pos = 0
  /\ token = 0
  /\ next = junk
  /\ num_prompt_tokens = 0
  /\ sampler = build_sampler(0, 1, 0, Seed(0, 0))
  /\ n_sampled = 0
  /\ reported = FALSE
  /\ seed_arg = Seed(0, 1)
  /\ rng_seed = atoi(seed_arg)
  /\ LdBuilt

Next == MainSetup \/ generate \/ encode \/ forward \/ EmbeddingCopy \/ rmsnorm \/ KernelBlock

Spec == Init /\ [][Next]_vars

(* ---------------------- the program, seed by seed ---------------------- *)
\* the seeds the command line gives
MaxSeed == 2

SeedArgs == {Seed(hi, lo) : hi \in {0, 1}, lo \in 0..MaxSeed}

InitSeed ==
  /\ t = build_tokenizer(VocabFileA, Len(VocabFileA))
  /\ EncInit
  /\ XfInit(t.vocab_size)
  /\ FwdInit
  /\ gen_pc = "main"
  /\ prompt \in Texts
  /\ steps \in 0..1
  /\ pos = 0
  /\ token = 0
  /\ next = junk
  /\ num_prompt_tokens = 0
  /\ sampler = build_sampler(0, 1, 0, Seed(0, 0))
  /\ n_sampled = 0
  /\ reported = FALSE
  /\ seed_arg \in SeedArgs
  /\ rng_seed = atoi(seed_arg)
  /\ LdBuilt

SpecSeed == InitSeed /\ [][Next]_vars

(* ----------------------- encode called on its own ---------------------- *)
InitEncode ==
  /\ t \in Tokenizers
  /\ EncInit
  /\ XfInit(t.vocab_size)
  /\ config.dim = 1 /\ config.n_layers = 1 /\ config.max_seq_len = 1
  /\ weights = WeightsOf(config, "ones")
  /\ junk = 0
  /\ device = cudaCpuDeviceId
  /\ FwdInit
  /\ GenInit
  /\ LdBuilt

NextEncode == EncodeCall \/ encode

SpecEncode == InitEncode /\ [][NextEncode]_vars

\* the same, with the longer texts
NextEncodeUtf8 == EncodeCallUtf8 \/ encode

SpecEncodeUtf8 == InitEncode /\ [][NextEncodeUtf8]_vars

\* the same, with the call repeated
NextEncodeTwice == EncodeCall \/ EncodeRepeat \/ encode

SpecEncodeTwice == InitEncode /\ [][NextEncodeTwice]_vars

(* ----------------------- forward called on its own --------------------- *)
\* forward calls the caller makes, at positions 0, 1, 2, ...
MaxForwardCalls == 3

\* the tokens the caller passes
CallerTokens == {0, 1}

ForwardCall ==
  /\ fwd_pc \in {"idle", "returned"}
  /\ Len(fwd_calls) < MaxForwardCalls
  /\ \E tok \in CallerTokens : fwd_token' = tok
  /\ fwd_pos' = Len(fwd_calls)
  /\ fwd_calls' = Append(fwd_calls, Len(fwd_calls))
  /\ fwd_pc' = "entry"
  /\ UNCHANGED <<fwd_l, fwd_trace, fwd_ret>>
  /\ UNCHANGED <<xfVars, encVars, rmsVars, genVars>>

InitForward ==
  /\ t = build_tokenizer(VocabFileA, Len(SpecialEntries))
  /\ EncInit
  /\ XfInit(t.vocab_size)
  /\ FwdInit
  /\ GenInit
  /\ LdBuilt

NextForward == ForwardCall \/ forward \/ EmbeddingCopy \/ rmsnorm \/ KernelBlock

SpecForward == InitForward /\ [][NextForward]_vars

(* ------------------ build_transformer on a checkpoint ------------------ *)
\* the values the header's fields take
MaxHeaderVal == 2

HeaderDims == (-1)..MaxHeaderVal

VocabFields == {IntMin, 0} \cup (1..MaxHeaderVal) \cup {-v : v \in 1..MaxHeaderVal}

Headers ==
  [ dim : HeaderDims, hidden_dim : {0, 1}, n_layers : {-1, 0, 1},
    n_heads : HeaderDims, n_kv_heads : HeaderDims, vocab_size : VocabFields,
    max_seq_len : {-1, 0, 1, 2} ]

\* the byte length of a checkpoint with header h: the header and the
\* regions memory_map_weights walks over, with the classifier's when the
\* stored vocab_size is negative
LayoutLen(h) ==
  LET v   == IF h.vocab_size < 0 THEN -h.vocab_size ELSE h.vocab_size
      cfg == [h EXCEPT !.vocab_size = v]
      w   == memory_map_weights(cfg, sizeofConfig \div sizeofFloat, 1)
  IN sizeofFloat * (w.end + (IF h.vocab_size < 0 THEN v * h.dim ELSE 0))

HasLayout(h) == h.n_heads # 0 /\ h.vocab_size # IntMin

\* the lengths of the files that start with header h: empty, one byte short
\* of a header, a header alone, the whole layout, one float more
FileLens(h) ==
  {0, sizeofConfig - 1, sizeofConfig}
    \cup (IF HasLayout(h) /\ LayoutLen(h) >= sizeofConfig
          THEN {LayoutLen(h), LayoutLen(h) + sizeofFloat} ELSE {})

InitLoader ==
  /\ t = build_tokenizer(VocabFileA, Len(SpecialEntries))
  /\ EncInit
  /\ junk \in JunkVals
  /\ config = [dim |-> junk, hidden_dim |-> junk, n_layers |-> junk, n_heads |-> junk,
               n_kv_heads |-> junk, vocab_size |-> junk, max_seq_len |-> junk]
  /\ weights = <<>>
  /\ x = <<>>
  /\ xb = <<>>
  /\ partial_sum = <<>>
  /\ key_cache = <<>>
  /\ value_cache = <<>>
  /\ cache_log = {}
  /\ device = cudaCpuDeviceId
  /\ FwdInit
  /\ GenInit
  /\ ld_pc = "header"
  /\ header \in Headers
  /\ file_len \in FileLens(header)
  /\ shared_weights = junk
  /\ file_size = junk
  /\ wview = <<>>

NextLoader == build_transformer

SpecLoader == InitLoader /\ [][NextLoader]_vars

(* ----------------- rmsnorm_kernel launched on its own ------------------- *)
\* the grids the model launches, in blocks, and the values x holds
MaxGrid == 2

XVals == {1, 2}

\* a cooperative launch of rmsnorm_kernel(xb, partial_sum, x, weight, dim)
\* with dim / BLOCKSIZE blocks of BLOCKSIZE lanes
KernelCall ==
  /\ k_pc = <<>>
  /\ LET grid == config.dim \div BLOCKSIZE
         lanes == (0..(grid - 1)) \X (0..(BLOCKSIZE - 1))
     IN /\ x' \in [1..config.dim -> XVals]
        /\ k_pc' = [ln \in lanes |-> "load"]
        /\ sdata' = [b \in 0..(grid - 1) |-> [k \in 1..BLOCKSIZE |-> junk]]
        /\ k_s' = [ln \in lanes |-> 0]
        /\ k_ss' = [ln \in lanes |-> 0]
  /\ UNCHANGED <<config, weights, xb, partial_sum, key_cache, value_cache,
                 cache_log, device, junk>>
  /\ UNCHANGED <<rms_pc, stream>>
  /\ UNCHANGED <<encVars, fwdVars, genVars>>

InitKernel ==
  /\ t = build_tokenizer(VocabFileA, Len(SpecialEntries))
  /\ EncInit
  /\ \E grid \in 1..MaxGrid :
       config = [dim |-> grid * BLOCKSIZE, hidden_dim |-> 2 * grid * BLOCKSIZE,
                 n_layers |-> 1, n_heads |-> 1, n_kv_heads |-> 1,
                 vocab_size |-> t.vocab_size, max_seq_len |-> 1]
  /\ \E img \in WeightImages : weights = WeightsOf(config, img)
  /\ junk \in JunkVals
  /\ x = [j \in 1..config.dim |-> junk]
  /\ xb = [j \in 1..config.dim |-> junk]
  /\ partial_sum = [j \in 1..config.dim |-> junk]
  /\ key_cache = [s \in Slots(config) |-> <<>>]
  /\ value_cache = [s \in Slots(config) |-> <<>>]
  /\ cache_log = {}
  /\ device = 0
  /\ FwdInit
  /\ GenInit
  /\ LdBuilt

NextKernel == KernelCall \/ rmsnorm_kernel \/ KernelBlock

SpecKernel == InitKernel /\ [][NextKernel]_vars

(* ------------------------------ properties ---------------------------- *)
Written(cache, s) == cache[s] # <<>>

\* C1: after k successful forward calls at positions 0..k-1, k <= max_seq_len,
\* the key cache and the value cache hold a written entry at exactly the
\* slots [layer, 0..k-1] of every layer
C1_CachePopulated ==
  (fwd_pc = "returned" /\ Len(fwd_calls) <= config.max_seq_len) =>
    \A s \in Slots(config) :
      /\ Written(key_cache, s) <=> (s[2] < Len(fwd_calls))
      /\ Written(value_cache, s) <=> (s[2] < Len(fwd_calls))

\* C2: a forward call at a position >= max_seq_len ends in the fatal
\* SequenceOverflow error, before any cache slot is written for it
C2_OverflowIsFatal ==
  /\ (fwd_pc \notin {"idle", "entry"} /\ fwd_pos >= config.max_seq_len)
       => fwd_pc = "SequenceOverflow"
  /\ \A a \in cache_log : a.op = "write" => a.pos < config.max_seq_len

\* C3: no step of forward changes the Config, the weights, the tokenizer,
\* the sampler or a cache slot at a position other than the call's, and
\* forward accesses no cache slot beyond the call's position
C3_ForwardFrame ==
  [][ /\ config' = config
      /\ weights' = weights
      /\ t' = t
      /\ sampler' = sampler
      /\ \A s \in Slots(config) :
           s[2] # fwd_pos' =>
             key_cache'[s] = key_cache[s] /\ value_cache'[s] = value_cache[s]
      /\ \A a \in cache_log' \ cache_log : a.pos <= fwd_pos' ]_vars

C3_Witness ==
  /\ fwd_pc = "returned"
  /\ fwd_pos = 1
  /\ x = weights.token_embedding_table[fwd_token]
  /\ xb # [j \in 1..config.dim |-> junk]

\* the steps the specification's forward pass runs, in order
RECURSIVE LayerSteps(_, _)
LayerSteps(l, n) ==
  IF l >= n THEN <<>>
  ELSE << <<"attention-norm", l>>, <<"qkv-projection", l>>, <<"rotary", l>>,
          <<"cache-write", l>>, <<"attention", l>>, <<"output-projection", l>>,
          <<"ffn-norm", l>>, <<"feed-forward", l>> >> \o LayerSteps(l + 1, n)

\* C4: every forward call runs, layer by layer, attention-norm, q/k/v
\* projection, rotary encoding, cache write, attention, output projection,
\* ffn-norm and feed-forward, then the final norm and the classifier, and
\* returns the logits buffer
C4_ForwardRunsEveryStep ==
  fwd_pc = "returned" =>
    /\ fwd_trace = << <<"embedding", -1>> >> \o LayerSteps(0, config.n_layers)
                     \o << <<"final-norm", -1>>, <<"classifier", -1>> >>
    /\ fwd_ret = "logits"

\* C5: the step generate has run at position p takes the next token from
\* the prompt when p < num_prompt_tokens - 1, and from one sample call
\* otherwise
C5_NextTokenRule ==
  gen_pc = "exited" =>
    LET p == pos - 1
    IN IF p < num_prompt_tokens - 1
       THEN next = tokens[p + 2]
       ELSE n_sampled = p - (num_prompt_tokens - 1) + 1

\* C6: with no BOS sampled, generate stops only once it has called forward
\* at positions 0, 1, ..., steps-1, in that order
C6_LoopRunsToBudget ==
  gen_pc \in {"exited", "returned"} =>
    fwd_calls = [i \in 1..steps |-> i - 1]

\* the child grid launched at line 502 has run to its end
ReductionComplete ==
  /\ <<0, 0>> \in Lanes
  /\ KRank(k_pc[<<0, 0>>]) > KRank("launch")
  /\ stream = <<>>

\* C7: a lane of rmsnorm_kernel that has read the scale for stage 3 did so
\* after every block wrote its partial sum and after stage 2, the launched
\* reduction included, was complete
C7_ScaleReadAfterReduction ==
  \A ln \in Lanes :
    KRank(k_pc[ln]) > KRank("read_ss") =>
      /\ \A o \in Lanes : KRank(k_pc[o]) > KRank("partial")
      /\ KRank(k_pc[<<0, 0>>]) > KRank("scale")
      /\ ReductionComplete

\* C8: on the accelerator path rmsnorm leaves in o what the host path
\* leaves there, weight[i] * scale * x[i]
C8_AcceleratorMatchesHost ==
  (rms_pc = "returned" /\ device # cudaCpuDeviceId) =>
    xb = rmsnorm_cpu(x, weights.rms_att_weight[fwd_l], config.dim)

\* the pairs (i, i+1) of toks whose concatenated pieces are a piece of the
\* vocabulary, and the id of that piece
PieceOf(id) == t.vocab[id + 1]

Resolves(toks, i, id) ==
  /\ ValidId(toks[i + 1])
  /\ ValidId(toks[i + 2])
  /\ PieceOf(id) = PieceOf(toks[i + 1]) \o PieceOf(toks[i + 2])

MergeablePairs(toks) ==
  {i \in 0..(Len(toks) - 2) : \E id \in 0..(t.vocab_size - 1) : Resolves(toks, i, id)}

ResolvedId(toks, i) == CHOOSE id \in 0..(t.vocab_size - 1) : Resolves(toks, i, id)

ScoreAt(toks, i) == t.vocab_scores[ResolvedId(toks, i) + 1]

\* the highest-scoring mergeable pair, the leftmost on equal scores
BestPair(toks) ==
  CHOOSE i \in MergeablePairs(toks) :
    \A j \in MergeablePairs(toks) :
      \/ ScoreAt(toks, i) > ScoreAt(toks, j)
      \/ ScoreAt(toks, i) = ScoreAt(toks, j) /\ i <= j

\* C9: an iteration of the merge loop that finds mergeable pairs replaces
\* the best of them by its resolved id, shifts the tokens after it left by
\* one and decrements n_tokens
C9_MergesBestPair ==
  [][ (enc_pc = "merge" /\ MergeablePairs(tokens) # {}) =>
        LET i == BestPair(tokens)
        IN /\ tokens' = SubSeq(tokens, 1, i) \o <<ResolvedId(tokens, i)>>
                          \o SubSeq(tokens, i + 3, Len(tokens))
           /\ n_tokens' = n_tokens - 1 ]_vars

\* C10: the merge loop does at most (initial token count - 1) merges, and
\* when it stops no adjacent pair of the remaining tokens is mergeable
C10_MergeLoopStops ==
  /\ (enc_pc = "merge" /\ n_merges > 0) => n_merges <= (n_tokens + n_merges) - 1
  /\ enc_pc = "eos" => MergeablePairs(tokens) = {}

\* C11: the sorted index is absent until the first encode call, is from then
\* on the vocabulary in compare_tokens order whatever encode does, and the
\* encode calls that returned for the same text and flags returned the same
\* n_tokens and the same tokens
C11_IndexOnceAndSameResult ==
  /\ enc_calls = 0 => t.sorted_vocab = NULL
  /\ (enc_calls > 0 /\ enc_pc # "begin") =>
       t.sorted_vocab = qsort([i \in 1..t.vocab_size |-> [str |-> t.vocab[i], id |-> i - 1]])
  /\ \A r1, r2 \in enc_log :
       (r1.text = r2.text /\ r1.bos = r2.bos /\ r1.eos = r2.eos) =>
         (r1.n_tokens = r2.n_tokens /\ r1.tokens = r2.tokens)

\* the vocabulary has no piece " "
NoSpacePiece == \A i \in 1..t.vocab_size : t.vocab[i] # <<32>>

\* C12: with no " " piece in the vocabulary, encode of a non-empty text
\* does not crash and holds no token written for the dummy prefix
C12_NoPrefixWithoutSpacePiece ==
  (NoSpacePiece /\ text # <<>>) =>
    /\ enc_pc # "crashed"
    /\ enc_pc \in {"scan", "merge", "eos", "done"} =>
         \A i \in 1..Len(tokens) : tokens[i] # -1

\* the text cut into code points: a byte and the continuation bytes that
\* follow it, at most max_num_utf8_byte bytes in all
RECURSIVE GroupLen(_, _)
GroupLen(txt, n) ==
  IF n < Len(txt) /\ n < max_num_utf8_byte /\ IsContinuation(txt[n + 1])
  THEN GroupLen(txt, n + 1)
  ELSE n

RECURSIVE Groups(_)
Groups(txt) ==
  IF txt = <<>> THEN <<>>
  ELSE LET n == GroupLen(txt, 1)
       IN <<SubSeq(txt, 1, n)>> \o Groups(SubSeq(txt, n + 1, Len(txt)))

\* what a code point is emitted as: the id of the piece equal to it, or
\* its bytes plus 3
EmitGroup(grp) ==
  IF \E i \in 1..t.vocab_size : t.vocab[i] = grp
  THEN <<(CHOOSE i \in 1..t.vocab_size : t.vocab[i] = grp) - 1>>
  ELSE [k \in 1..Len(grp) |-> grp[k] + 3]

RECURSIVE EmitAll(_)
EmitAll(grps) ==
  IF grps = <<>> THEN <<>> ELSE EmitGroup(Head(grps)) \o EmitAll(Tail(grps))

\* the tokens encode has written before the first byte of the text
LeadCount == (IF bos # 0 THEN 1 ELSE 0) + (IF text # <<>> THEN 1 ELSE 0)

\* C13: when the byte loop is over and nothing is merged yet, the tokens
\* after BOS and the dummy prefix are, code point by code point of 1 to 4
\* bytes, the id of the piece equal to the code point or else one id per
\* byte, the byte plus 3
C13_CodePointsThenBytes ==
  (enc_pc = "merge" /\ n_merges = 0) =>
    /\ \A k \in 1..Len(Groups(text)) : Len(Groups(text)[k]) \in 1..max_num_utf8_byte
    /\ n_tokens = Len(tokens)
    /\ SubSeq(tokens, LeadCount + 1, n_tokens) = EmitAll(Groups(text))

C13_Witness ==
  /\ enc_pc = "merge"
  /\ n_merges = 0
  /\ Len(text) = 5
  /\ Len(Groups(text)) = 2
  /\ Len(Groups(text)[1]) = max_num_utf8_byte
  /\ n_tokens = LeadCount + 5

\* C14: whatever vocab_size the header stores, once read_checkpoint has set
\* the weight pointers config.vocab_size is its magnitude and is positive,
\* the weights count as shared exactly when it was positive, and wcls is
\* the embedding table when shared and else the place after the two
\* skipped rotary regions
C14_VocabSignAndClassifier ==
  /\ ld_pc # "undefined"
  /\ wview # <<>> =>
       /\ config.vocab_size = (IF header.vocab_size < 0 THEN -header.vocab_size
                                ELSE header.vocab_size)
       /\ config.vocab_size > 0
       /\ (shared_weights = 1) <=> (header.vocab_size > 0)
       /\ wview.wcls = (IF header.vocab_size > 0 THEN wview.token_embedding_table
                        ELSE wview.end)

\* C15: a checkpoint shorter than the header ends read_checkpoint in a
\* fatal error, and weight pointers are set only for a checkpoint whose
\* length is the header's plus the weight regions' of its Config
C15_LengthValidated ==
  /\ (file_len < sizeofConfig /\ ld_pc # "header") =>
       (ld_pc = "exit_failure" /\ wview = <<>>)
  /\ wview # <<>> => file_len = LayoutLen(header)

\* a header the loader is to accept: every dimension positive, n_heads
\* divides dim, n_kv_heads divides n_heads
ValidHeader(h) ==
  /\ h.dim > 0 /\ h.hidden_dim > 0 /\ h.n_layers > 0 /\ h.n_heads > 0
  /\ h.n_kv_heads > 0 /\ h.vocab_size # 0 /\ h.max_seq_len > 0
  /\ h.dim % h.n_heads = 0
  /\ h.n_heads % h.n_kv_heads = 0

\* C16: build_transformer accepts only valid headers, and for a Config it
\* accepts dim = n_heads * head_size and kv_dim = n_kv_heads * head_size
C16_InvalidConfigRejected ==
  ld_pc = "built" =>
    /\ ValidHeader(header)
    /\ LET head_size == CDiv(config.dim, config.n_heads)
           kv_dim == CDiv(config.dim * config.n_kv_heads, config.n_heads)
       IN /\ config.dim = config.n_heads * head_size
          /\ kv_dim = config.n_kv_heads * head_size

\* C17: from the sampler's construction on, its PRNG state is the seed the
\* run was given, advanced once for each sample call made
C17_SeedReproducible ==
  gen_pc # "main" =>
    /\ n_sampled = 0 => sampler.rng_state = seed_arg
    /\ (gen_pc = "exited" /\ pos - 1 >= num_prompt_tokens - 1) => n_sampled > 0

\* C18: on the accelerator path the host has read partial_o[0] only once
\* both launches of reduce were over: when rmsnorm has returned, no launch
\* is still pending or running
C18_ReadAfterReductions ==
  (rms_pc = "returned" /\ device # cudaCpuDeviceId) => stream = <<>>

\* the sum of x[i] * x[i] over the indices i < size of block b's chunk
RECURSIVE ChunkSumSq(_, _)
ChunkSumSq(b, k) ==
  IF k = 0 THEN 0
  ELSE LET i == b * BLOCKSIZE + k - 1
       IN ChunkSumSq(b, k - 1) + (IF i < config.dim THEN x[i + 1] * x[i + 1] ELSE 0)

\* C19: once lane 0 of block b has written the block's partial sum, and
\* until stage 2 starts, partial_sum[b] is the sum of x[i] * x[i] over the
\* block's chunk; once the launched reduction is over and before the scale
\* replaces it, partial_sum[0] is the sum of the launched blocks' partial
\* sums and of nothing else, the sum of squares of all of x
C19_PartialSumsOfSquares ==
  /\ \A ln \in Lanes :
       (/\ ln[2] = 0
        /\ KRank(k_pc[ln]) > KRank("partial")
        /\ KRank(k_pc[<<0, 0>>]) <= KRank("launch"))
       => partial_sum[ln[1] + 1] = ChunkSumSq(ln[1], BLOCKSIZE)
  /\ (<<0, 0>> \in Lanes /\ k_pc[<<0, 0>>] = "scale" /\ stream = <<>>)
       => partial_sum[1] = SumSq(x, config.dim)

\* C20: every write encode makes for generate lands inside the buffer
\* generate allocated: no index written reaches the number of ints that fit
\* in the sizeof(int) * strlen(prompt) + 3 bytes of line 593
C20_TokensBufferLargeEnough ==
  gen_pc \notin {"main", "generate"} => ~tokens_oob

\* C21: during and after an encode call every token held in
\* tokens[0..n_tokens-1] is an id of the vocabulary, 0 <= id < vocab_size,
\* the ids of the byte fallback and of the dummy prefix included, and the
\* merge loop has read no vocab[id] out of bounds
C21_TokensAreVocabularyIds ==
  /\ enc_pc # "idle" => \A i \in 1..n_tokens : ValidId(tokens[i])
  /\ enc_pc # "crashed"

\* the copy of an embedding row into x is still queued or under way
CopyPending == \E i \in 1..Len(stream) : stream[i].src = "memcpy"

\* C22: the first layer's rmsnorm has read x only once the copy of the
\* token's embedding row was over: on the host path rmsnorm has not returned
\* from layer 0 with the copy pending, and on the accelerator path no block
\* of reduce over x has run ahead of a copy
C22_CopyBeforeFirstNorm ==
  /\ (fwd_pc = "in_rmsnorm" /\ fwd_l = 0 /\ rms_pc = "returned"
        /\ device = cudaCpuDeviceId) => ~CopyPending
  /\ \A i \in 1..Len(stream) :
       (stream[i].src = "x" /\ stream[i].done # {}) =>
         \A j \in 1..(i - 1) : stream[j].src # "memcpy"

====
